---- MODULE Spec2Model ----
(***************************************************************************)
(* Model of repo-manager.py: the Repo class reconciles a repository's team *)
(* permissions, Actions variables and Actions secrets against a desired    *)
(* configuration by issuing gh calls.  Every subprocess invocation is      *)
(* appended to the history variable calls; a call's outcome (exit status)  *)
(* is chosen nondeterministically, a successful set/remove call changes    *)
(* the remote mapping, a failed one leaves it as it was.                   *)
(***************************************************************************)
EXTENDS Integers, Sequences, FiniteSets, TLC

(* ------------------------------ bounds --------------------------------- *)
\* number of distinct team slugs / value names of the method-level runs
MaxKeys == 2
\* number of consecutive invocations of the same entry point
MaxRuns == 2
\* number of distinct team slugs / value names of the whole update() flow
MaxFlowKeys == 1
\* number of entries of the repos list of the configuration file
MaxRepos == 2

(* ------------------------------ domains -------------------------------- *)
TeamSlugs == <<"teamA", "TeamA", "teamB", "teamC">>
ValueNames == <<"API_KEY", "ENV", "DEBUG", "TOKEN">>
Levels == {"write", "admin"}
\* "***" is the string update_environment substitutes for a missing value
Marker == "***"
Values == {"abc123", "prod", Marker}
FlowLevels == {"write"}
FlowValues == {"abc123"}

Teams(n) == {TeamSlugs[i] : i \in 1..n}
Names(n) == {ValueNames[i] : i \in 1..n}

\* all dicts with keys among K and values among V
Maps(K, V) == UNION {[D -> V] : D \in SUBSET K}
EmptyMap == <<>>
Put(m, k, v) == [x \in DOMAIN m \cup {k} |-> IF x = k THEN v ELSE m[x]]
Del(m, k) == [x \in DOMAIN m \ {k} |-> m[x]]
\* dict.update(): the entries of new win
Merge(new, old) == [x \in DOMAIN new \cup DOMAIN old |-> IF x \in DOMAIN new THEN new[x] ELSE old[x]]

VARIABLES
  config,       \* the configuration file: common, repos
  idx,          \* the position in config.repos the driver loop is at, 0 outside it
  others,       \* the repositories on the host other than the one self names
  self,         \* the Repo object: name, org, fork_url and the desired mappings
  remote,       \* the repository on the host: permission, variable, secret, locked
  remote0,      \* history: remote as it was when the current invocation started
  entry,        \* the method the current invocation entered
  run,          \* number of the current invocation
  pc,           \* position of the program
  environment,  \* argument of update_environment
  existing,     \* existing_perms / existing_data: the snapshot fetched
  todo,         \* the keys of all_teams / all_data the for loop has not visited
  to_add,       \* to_add of update_environment
  buckets,      \* the report strings accumulated per disposition
  stdout,       \* what the invocation has printed
  calls,        \* history: the remote calls the invocation has issued, in order
  error         \* the exception raised, <<>> when none

vars == <<config, idx, others, self, remote, remote0, entry, run, pc, environment, existing, todo,
          to_add, buckets, stdout, calls, error>>

(* --------------------------- remote host -------------------------------- *)
\* a repository of the host: its team permissions, variables, secrets, lock
Remote(p, v, s, l) ==
  [exists |-> TRUE, permission |-> p, variable |-> v, secret |-> s, locked |-> l]
\* a name the host has no repository for
NoRemote ==
  [exists |-> FALSE, permission |-> EmptyMap, variable |-> EmptyMap, secret |-> EmptyMap,
   locked |-> FALSE]

\* every gh invocation addresses {self.org}/{self.name}
Call(op, kind, key, values, ok) ==
  [repo |-> self.name, op |-> op, kind |-> kind, key |-> key, values |-> values, ok |-> ok]

\* GET repos/{org}/{name}/teams: one object per team with slug and permission
ListTeams(r) == [t \in DOMAIN r.permission |-> [slug |-> t, permission |-> r.permission[t]]]

\* GET repos/{org}/{name}/actions/{kind}s: variables carry their value,
\* secrets are listed by name only
ListEnvironment(kind, r) ==
  IF kind = "variable"
  THEN [n \in DOMAIN r.variable |-> [name |-> n, value |-> r.variable[n]]]
  ELSE [n \in DOMAIN r.secret |-> [name |-> n]]

\* a successful set call stores every entry it carries
ApplySet(r, kind, values) == [r EXCEPT ![kind] = Merge(values, r[kind])]
\* a successful DELETE drops the entry
ApplyRemove(r, kind, key) == [r EXCEPT ![kind] = Del(r[kind], key)]

(* ------------------------- report formatting ---------------------------- *)
\* f"    {name}: {value}\n"
Line1(name, value) == <<name, value>>
\* f"    {name}: {old} => {new}\n"
Line2(name, old, new) == <<name, old, "=>", new>>

NoBuckets == [overwritten |-> <<>>, edited |-> <<>>, added |-> <<>>,
              removed |-> <<>>, unchanged |-> <<>>]

\* stdout is a sequence of printed items, each tagged with what it is: a report
\* header, a report section (title and lines), a progress line, an error line
\* print(f"  Title:\n{bucket}", end="") for every non-empty bucket, in order
Section(title, lines) == IF lines = <<>> THEN <<>> ELSE << <<"section", title, lines>> >>

PermissionsReport(b) ==
  << <<"header", "Permissions:">> >> \o Section("Edited", b.edited) \o Section("Added", b.added)
    \o Section("Removed", b.removed) \o Section("Unchanged", b.unchanged)

\* environment.value.capitalize() + "s:"
Header(kind) == IF kind = "secret" THEN "Secrets:" ELSE "Variables:"

EnvironmentReport(kind, b) ==
  << <<"header", Header(kind)>> >> \o Section("Overwritten", b.overwritten)
    \o Section("Edited", b.edited) \o Section("Added", b.added)
    \o Section("Removed", b.removed) \o Section("Unchanged", b.unchanged)

(* ------------------------------ raising --------------------------------- *)
\* variant: the error is recorded and the caller carries on
RaiseAndCarryOn(exc, printed) ==
  /\ error' = exc
  /\ stdout' = stdout \o printed
  /\ pc' = pc

\* an exception leaves every frame: nothing after the raise is executed
Raise(exc, printed) ==
  /\ error' = exc
  /\ stdout' = stdout \o printed
  /\ pc' = "raised"

(* ------------------------- update_permissions --------------------------- *)
\* existing_perms = { perm["slug"]: perm["permission"] for perm in ... }
ExistingPerms(listing) == [t \in DOMAIN listing |-> listing[t].permission]

\* all_teams = set(existing_perms.keys()).union(set(self.permissions.keys()))
AllTeams(existing_perms, permissions) == DOMAIN existing_perms \cup DOMAIN permissions

\* variant: a team present on both sides is edited whatever its level
PermissionDispositionNoCompare(team, existing_perms, permissions) ==
  LET present_in_existing == team \in DOMAIN existing_perms
      present_in_config == team \in DOMAIN permissions
  IN  IF present_in_existing /\ present_in_config THEN "edited"
      ELSE IF present_in_config THEN "added"
      ELSE "removed"

\* the if/elif chain of the loop body
PermissionDisposition(team, existing_perms, permissions) ==
  LET present_in_existing == team \in DOMAIN existing_perms
      present_in_config == team \in DOMAIN permissions
  IN  IF present_in_existing /\ present_in_config
      THEN IF existing_perms[team] # permissions[team] THEN "edited" ELSE "unchanged"
      ELSE IF ~present_in_existing /\ present_in_config THEN "added"
      ELSE IF present_in_existing /\ ~present_in_config THEN "removed"
      ELSE "none"

\* the line the loop body appends to the bucket of the disposition
PermissionLine(d, team, existing_perms, permissions) ==
  CASE d = "edited" -> Line2(team, existing_perms[team], permissions[team])
    [] d = "unchanged" -> Line1(team, existing_perms[team])
    [] d = "added" -> Line1(team, permissions[team])
    [] d = "removed" -> Line1(team, existing_perms[team])

\* what the next phase of update() prints before it starts
Announce(next) ==
  IF entry # "update" THEN <<>>
  ELSE << <<"info", IF next = "update_variables" THEN "Setting variables for repo"
            ELSE IF next = "update_secrets" THEN "Setting secrets for repo"
            ELSE "Locking main branch for repo">> >>

\* variant: update() goes on with the secrets
AfterPermissionsSecrets == IF entry = "update" THEN "update_secrets" ELSE "done"

\* the statement that follows the call of update_permissions
AfterPermissions == IF entry = "update" THEN "update_variables" ELSE "done"

\* gh api repos/{org}/{name}/teams with check=True, then the two set operations
UpdatePermissionsFetch ==
  /\ pc = "update_permissions"
  /\ \E ok \in BOOLEAN :
       /\ calls' = Append(calls, Call("list", "permission", "", EmptyMap, ok))
       /\ IF ok
          THEN /\ existing' = ExistingPerms(ListTeams(remote))
               /\ todo' = AllTeams(existing', self.permissions)
               /\ buckets' = NoBuckets
               /\ pc' = "update_permissions_loop"
               /\ UNCHANGED <<stdout, error>>
          ELSE /\ Raise(<<"CalledProcessError", "list", "permission">>, <<>>)
               /\ UNCHANGED <<existing, todo, buckets>>
  /\ UNCHANGED <<config, idx, others, self, remote, remote0, entry, run, environment, to_add>>

\* variant: the error of a failed PUT names the repository only
AddPermissionAnonymous(team_slug, permission, ok) ==
  /\ calls' = Append(calls, Call("set", "permission", team_slug, team_slug :> permission, ok))
  /\ IF ok
     THEN /\ remote' = ApplySet(remote, "permission", team_slug :> permission)
          /\ UNCHANGED <<stdout, error>>
     ELSE /\ Raise(<<"ValueError", "Failed to set permission", self.name>>,
                   << <<"error", "Error setting permission for team", team_slug>> >>)
          /\ UNCHANGED remote

\* add_permission(team_slug, permission): PUT, ValueError on a non-zero exit
AddPermission(team_slug, permission, ok) ==
  /\ calls' = Append(calls, Call("set", "permission", team_slug, team_slug :> permission, ok))
  /\ IF ok
     THEN /\ remote' = ApplySet(remote, "permission", team_slug :> permission)
          /\ UNCHANGED <<stdout, error>>
     ELSE /\ Raise(<<"ValueError", "Failed to set permission", permission, team_slug, self.name>>,
                   << <<"error", "Error setting permission for team", team_slug>> >>)
          /\ UNCHANGED remote

\* remove_permission(team_slug): DELETE, ValueError on a non-zero exit
RemovePermission(team_slug, ok) ==
  /\ calls' = Append(calls, Call("remove", "permission", team_slug, EmptyMap, ok))
  /\ IF ok
     THEN /\ remote' = ApplyRemove(remote, "permission", team_slug)
          /\ UNCHANGED <<stdout, error>>
     ELSE /\ Raise(<<"ValueError", "Failed to remove permissions", team_slug, self.name>>,
                   << <<"error", "Error removing permission for team", team_slug>> >>)
          /\ UNCHANGED remote

\* variant: every iteration lists the teams again and classifies against that
UpdatePermissionsStepRefetch ==
  /\ pc = "update_permissions_loop"
  /\ \E team \in todo :
       LET snapshot == ExistingPerms(ListTeams(remote))
           d == PermissionDisposition(team, snapshot, self.permissions)
       IN
       /\ d # "none"
       /\ existing' = snapshot
       /\ todo' = todo \ {team}
       /\ buckets' = [buckets EXCEPT ![d] = Append(@, PermissionLine(d, team, snapshot, self.permissions))]
       /\ IF d = "unchanged"
          THEN UNCHANGED <<remote, calls, stdout, error, pc>>
          ELSE \E ok \in BOOLEAN :
                 /\ IF d = "removed"
                    THEN RemovePermission(team, ok)
                    ELSE AddPermission(team, self.permissions[team], ok)
                 /\ IF ok THEN UNCHANGED pc ELSE TRUE
  /\ UNCHANGED <<config, idx, others, self, remote0, entry, run, environment, to_add>>

\* one iteration of "for team in all_teams" (a set: any order)
UpdatePermissionsStep ==
  /\ pc = "update_permissions_loop"
  /\ \E team \in todo :
       LET d == PermissionDisposition(team, existing, self.permissions) IN
       /\ todo' = todo \ {team}
       /\ buckets' = [buckets EXCEPT ![d] = Append(@, PermissionLine(d, team, existing, self.permissions))]
       /\ IF d = "unchanged"
          THEN UNCHANGED <<remote, calls, stdout, error, pc>>
          ELSE \E ok \in BOOLEAN :
                 /\ IF d = "removed"
                    THEN RemovePermission(team, ok)
                    ELSE AddPermission(team, self.permissions[team], ok)
                 /\ IF ok THEN UNCHANGED pc ELSE TRUE
  /\ UNCHANGED <<config, idx, others, self, remote0, entry, run, environment, existing, to_add>>

\* the loop is over: print the report and return
UpdatePermissionsPrint ==
  /\ pc = "update_permissions_loop"
  /\ todo = {}
  /\ stdout' = stdout \o PermissionsReport(buckets) \o Announce(AfterPermissions)
  /\ pc' = AfterPermissions
  /\ UNCHANGED <<config, idx, others, self, remote, remote0, entry, run, environment, existing, todo,
                 to_add, buckets, calls, error>>

(* ------------------------- update_environment --------------------------- *)
\* environment_data = self.secrets if SECRET else self.variables
EnvironmentData(kind) == IF kind = "secret" THEN self.secrets ELSE self.variables

\* variant: a listed entry without a value is read as the empty string
ExistingDataNoMarker(listing) ==
  [n \in DOMAIN listing |->
     IF "value" \in DOMAIN listing[n] THEN listing[n].value ELSE ""]

\* existing_data = {value["name"]: value.get("value", "***") for value in ...}
ExistingData(listing) ==
  [n \in DOMAIN listing |->
     IF "value" \in DOMAIN listing[n] THEN listing[n].value ELSE Marker]

\* variant: the loop runs over the configured names only
AllDataConfigOnly(existing_data, environment_data) == DOMAIN environment_data

\* all_data = set(existing_data.keys()).union(set(environment_data.keys()))
AllData(existing_data, environment_data) == DOMAIN existing_data \cup DOMAIN environment_data

\* the if/elif chain of the loop body
EnvironmentDisposition(value_name, existing_data, environment_data) ==
  LET present_in_existing == value_name \in DOMAIN existing_data
      present_in_config == value_name \in DOMAIN environment_data
  IN  IF present_in_existing /\ present_in_config
      THEN IF existing_data[value_name] = "***" THEN "overwritten"
           ELSE IF existing_data[value_name] # environment_data[value_name] THEN "edited"
           ELSE "unchanged"
      ELSE IF ~present_in_existing /\ present_in_config THEN "added"
      ELSE IF present_in_existing /\ ~present_in_config THEN "removed"
      ELSE "none"

\* variant: the configured value is shown for every kind
ShownLiteral(kind, value) == value

\* {environment_data[value_name] if environment == Environment.VARIABLE else '***'}
Shown(kind, value) == IF kind = "variable" THEN value ELSE "***"

\* the line the loop body appends to the bucket of the disposition
EnvironmentLine(d, kind, value_name, existing_data, environment_data) ==
  CASE d = "overwritten" -> Line2(value_name, "***", "***")
    [] d = "edited" -> Line2(value_name, existing_data[value_name],
                             Shown(kind, environment_data[value_name]))
    [] d = "unchanged" -> Line1(value_name, existing_data[value_name])
    [] d = "added" -> Line1(value_name, Shown(kind, environment_data[value_name]))
    [] d = "removed" -> Line1(value_name, existing_data[value_name])

\* variant: the edited branch does not queue the value
ToAddNoEdited(d, values, value_name, environment_data) ==
  IF d \in {"overwritten", "added"}
  THEN Put(values, value_name, environment_data[value_name])
  ELSE values

\* to_add[value_name] = environment_data[value_name] in the overwritten, edited
\* and added branches
ToAdd(d, values, value_name, environment_data) ==
  IF d \in {"overwritten", "edited", "added"}
  THEN Put(values, value_name, environment_data[value_name])
  ELSE values

\* variant: update() locks the branch right after the variables
AfterEnvironmentSkipSecrets(kind) ==
  IF entry # "update" THEN "done" ELSE "lock_main_branch"

\* the statement that follows the call of update_environment(kind)
AfterEnvironment(kind) ==
  IF entry # "update" THEN "done"
  ELSE IF kind = "variable" THEN "update_secrets" ELSE "lock_main_branch"

\* update_variables / update_secrets enter update_environment, which lists the
\* remote values with check=True and builds existing_data and all_data
UpdateEnvironmentFetch ==
  /\ pc \in {"update_variables", "update_secrets"}
  /\ LET kind == IF pc = "update_secrets" THEN "secret" ELSE "variable" IN
     /\ environment' = kind
     /\ \E ok \in BOOLEAN :
          /\ calls' = Append(calls, Call("list", kind, "", EmptyMap, ok))
          /\ IF ok
             THEN /\ existing' = ExistingData(ListEnvironment(kind, remote))
                  /\ todo' = AllData(existing', EnvironmentData(kind))
                  /\ to_add' = EmptyMap
                  /\ buckets' = NoBuckets
                  /\ pc' = "update_environment_loop"
                  /\ UNCHANGED <<stdout, error>>
             ELSE /\ Raise(<<"CalledProcessError", "list", kind>>, <<>>)
                  /\ UNCHANGED <<existing, todo, to_add, buckets>>
  /\ UNCHANGED <<config, idx, others, self, remote, remote0, entry, run>>

\* variant: the exit status of the DELETE is not looked at
RemoveEnvironmentValueUnchecked(kind, value_name, ok) ==
  /\ calls' = Append(calls, Call("remove", kind, value_name, EmptyMap, ok))
  /\ remote' = IF ok THEN ApplyRemove(remote, kind, value_name) ELSE remote
  /\ UNCHANGED <<stdout, error, pc>>

\* remove_environment_value(environment, value_name): DELETE, ValueError on failure
RemoveEnvironmentValue(kind, value_name, ok) ==
  /\ calls' = Append(calls, Call("remove", kind, value_name, EmptyMap, ok))
  /\ IF ok
     THEN /\ remote' = ApplyRemove(remote, kind, value_name)
          /\ UNCHANGED <<stdout, error, pc>>
     ELSE /\ Raise(<<"ValueError", "Failed to delete", kind, value_name, self.name>>,
                   << <<"error", "Error deleting", kind, value_name>> >>)
          /\ UNCHANGED remote

\* one iteration of "for value_name in all_data" (a set: any order)
UpdateEnvironmentStep ==
  /\ pc = "update_environment_loop"
  /\ \E value_name \in todo :
       LET environment_data == EnvironmentData(environment)
           d == EnvironmentDisposition(value_name, existing, environment_data)
       IN
       /\ todo' = todo \ {value_name}
       /\ buckets' = [buckets EXCEPT ![d] =
            Append(@, EnvironmentLine(d, environment, value_name, existing, environment_data))]
       /\ to_add' = ToAdd(d, to_add, value_name, environment_data)
       /\ IF d = "removed"
          THEN \E ok \in BOOLEAN : RemoveEnvironmentValue(environment, value_name, ok)
          ELSE UNCHANGED <<remote, calls, stdout, error, pc>>
  /\ UNCHANGED <<config, idx, others, self, remote0, entry, run, environment, existing>>

\* the temporary file of add_environment_values: one "key=value" line per entry
EnvFile(values) == {<<k, "=", values[k]>> : k \in DOMAIN values}
\* gh {kind} set -f file: the entries the file holds
ReadEnvFile(file) == [k \in {l[1] : l \in file} |-> (CHOOSE l \in file : l[1] = k)[3]]

\* add_environment_values(environment, values): nothing when values is empty,
\* else one "gh <kind> set -f <file>" for all of them, ValueError on failure
AddEnvironmentValues(kind, values, ok, printed, next) ==
  IF values = EmptyMap
  THEN /\ stdout' = stdout \o printed
       /\ pc' = next
       /\ UNCHANGED <<remote, calls, error>>
  ELSE /\ calls' = Append(calls, Call("set", kind, "", ReadEnvFile(EnvFile(values)), ok))
       /\ IF ok
          THEN /\ remote' = ApplySet(remote, kind, ReadEnvFile(EnvFile(values)))
               /\ stdout' = stdout \o printed
               /\ pc' = next
               /\ UNCHANGED error
          ELSE /\ Raise(<<"ValueError", "Failed to set", kind, self.name>>,
                        << <<"error", "Error setting", kind>> >>)
               /\ UNCHANGED remote

\* the loop is over: "if to_add: add_environment_values(...)", then the report
UpdateEnvironmentApply ==
  /\ pc = "update_environment_loop"
  /\ todo = {}
  /\ \E ok \in BOOLEAN :
       /\ (to_add = EmptyMap => ok)
       /\ AddEnvironmentValues(environment, to_add, ok,
            EnvironmentReport(environment, buckets) \o Announce(AfterEnvironment(environment)),
            AfterEnvironment(environment))
  /\ UNCHANGED <<config, idx, others, self, remote0, entry, run, environment, existing, todo, to_add, buckets>>

(* ------------------------ update, lock_main_branch ---------------------- *)
\* update(): gh repo sync, ValueError when it fails, then update_permissions
Update ==
  /\ pc = "update"
  /\ \E ok \in BOOLEAN :
       /\ calls' = Append(calls, Call("sync", "repo", "", EmptyMap, ok))
       /\ IF ok
          THEN /\ stdout' = stdout \o << <<"info", "Updating repo">>, <<"info", "Setting permissions for repo">> >>
               /\ pc' = "update_permissions"
               /\ UNCHANGED error
          ELSE Raise(<<"ValueError", "Failed to sync repo", self.org, self.name>>, << <<"info", "Updating repo">> >>)
  /\ UNCHANGED <<config, idx, others, self, remote, remote0, entry, run, environment, existing, todo,
                 to_add, buckets>>

\* lock_main_branch(): PUT branches/main/protection, ValueError on failure
LockMainBranch ==
  /\ pc = "lock_main_branch"
  /\ \E ok \in BOOLEAN :
       /\ calls' = Append(calls, Call("lock", "branch", "main", EmptyMap, ok))
       /\ IF ok
          THEN /\ remote' = [remote EXCEPT !.locked = TRUE]
               /\ pc' = "done"
               /\ UNCHANGED <<stdout, error>>
          ELSE /\ Raise(<<"ValueError", "Failed to lock main branch", self.name>>,
                        << <<"error", "Error locking main branch for repo">> >>)
               /\ UNCHANGED remote
  /\ UNCHANGED <<config, idx, others, self, remote0, entry, run, environment, existing, todo, to_add, buckets>>

(* ----------------------- configuration, Repo.__init__ -------------------- *)
\* the values of a JSON document, tagged with their shape
Null == <<"null">>
Str(x) == <<"str", x>>
List(q) == <<"list", q>>
Dict(m) == <<"dict", m>>
Shape(j) == j[1]
Content(j) == j[2]

\* the attributes in the order __init__ assigns them
FieldOrder == <<"name", "fork_url", "secrets", "variables", "permissions", "org">>
FieldNames == {FieldOrder[i] : i \in DOMAIN FieldOrder}

\* variant: an entry of the repo config that is null gives way to the common one
GetFieldSkipNull(repo, common, field_name) ==
  IF field_name \in DOMAIN repo /\ Shape(repo[field_name]) # "null" THEN repo[field_name]
  ELSE IF field_name \in DOMAIN common THEN common[field_name]
  ELSE Null

\* self._repo.get(field_name, self._common.get(field_name, None)): the entry of
\* the repo config when the key is there, whatever it holds
GetField(repo, common, field_name) ==
  IF field_name \in DOMAIN repo THEN repo[field_name]
  ELSE IF field_name \in DOMAIN common THEN common[field_name]
  ELSE Null

\* the positions of the attributes whose value "is None"
Unresolved(repo, common) ==
  {i \in DOMAIN FieldOrder : Shape(GetField(repo, common, FieldOrder[i])) = "null"}
\* the attribute __init__ raises for: the first one without a value
FirstUnresolved(repo, common) ==
  FieldOrder[CHOOSE i \in Unresolved(repo, common) :
               \A j \in Unresolved(repo, common) : i <= j]
\* the attributes of the object when no _get_field raised
Attributes(repo, common) == [f \in FieldNames |-> GetField(repo, common, f)]

\* Repo(repo, common) on its own: every attribute resolved, or ValueError
Construct ==
  /\ pc = "construct"
  /\ LET repo == config.repos[1]
         common == config.common
     IN  IF Unresolved(repo, common) = {}
         THEN /\ self' = Attributes(repo, common)
              /\ pc' = "constructed"
              /\ UNCHANGED <<stdout, error>>
         ELSE /\ Raise(<<"ValueError", "No value found for field", FirstUnresolved(repo, common)>>, <<>>)
              /\ UNCHANGED self
  /\ UNCHANGED <<config, idx, others, remote, remote0, entry, run, environment, existing,
                 todo, to_add, buckets, calls>>

(* -------------------------------- create --------------------------------- *)
\* variant: the exit status of the fork is not looked at
CreateUnchecked ==
  /\ pc = "create"
  /\ \E ok \in BOOLEAN :
       /\ calls' = Append(calls, Call("fork", "repo", self.fork_url, EmptyMap, ok))
       /\ remote' = IF remote.exists \/ ~ok THEN remote
                    ELSE Remote(EmptyMap, EmptyMap, EmptyMap, FALSE)
       /\ todo' = DOMAIN self.permissions
       /\ stdout' = stdout \o << <<"info", "Creating repo">>, <<"info", "Setting permissions for repo">> >>
       /\ pc' = "set_permissions"
       /\ UNCHANGED error
  /\ UNCHANGED <<config, idx, others, self, remote0, entry, run, environment, existing,
                 to_add, buckets>>

\* create(): gh repo fork, ValueError when it fails; a fork of a repository the
\* host does not have yet starts with no team, variable or secret and unlocked.
\* The command carries no --org (the line with it is commented out): the fork
\* is taken to be the repository {org}/{name} the later calls address.
Create ==
  /\ pc = "create"
  /\ \E ok \in BOOLEAN :
       /\ calls' = Append(calls, Call("fork", "repo", self.fork_url, EmptyMap, ok))
       /\ IF ok
          THEN /\ remote' = IF remote.exists THEN remote
                            ELSE Remote(EmptyMap, EmptyMap, EmptyMap, FALSE)
               /\ todo' = DOMAIN self.permissions
               /\ stdout' = stdout \o << <<"info", "Creating repo">>, <<"info", "Setting permissions for repo">> >>
               /\ pc' = "set_permissions"
               /\ UNCHANGED error
          ELSE /\ Raise(<<"ValueError", "Failed to fork repo", self.fork_url, self.org>>,
                        << <<"info", "Creating repo">> >>)
               /\ UNCHANGED <<remote, todo>>
  /\ UNCHANGED <<config, idx, others, self, remote0, entry, run, environment, existing,
                 to_add, buckets>>

\* one iteration of "for team_slug, permission in self.permissions.items()"
SetPermissionsStep ==
  /\ pc = "set_permissions"
  /\ \E team_slug \in todo : \E ok \in BOOLEAN :
       /\ todo' = todo \ {team_slug}
       /\ AddPermission(team_slug, self.permissions[team_slug], ok)
       /\ IF ok THEN UNCHANGED pc ELSE TRUE
  /\ UNCHANGED <<config, idx, others, self, remote0, entry, run, environment, existing,
                 to_add, buckets>>

\* set_permissions() returns, create() announces the variables
SetPermissionsReturn ==
  /\ pc = "set_permissions"
  /\ todo = {}
  /\ stdout' = stdout \o << <<"info", "Setting variables for repo">> >>
  /\ pc' = "set_variables"
  /\ UNCHANGED <<config, idx, others, self, remote, remote0, entry, run, environment,
                 existing, todo, to_add, buckets, calls, error>>

\* set_variables(): add_environment_values(VARIABLE, self.variables)
SetVariables ==
  /\ pc = "set_variables"
  /\ \E ok \in BOOLEAN :
       /\ (self.variables = EmptyMap => ok)
       /\ AddEnvironmentValues("variable", self.variables, ok,
            << <<"info", "Setting secrets for repo">> >>, "set_secrets")
  /\ UNCHANGED <<config, idx, others, self, remote0, entry, run, environment, existing,
                 todo, to_add, buckets>>

\* set_secrets(): add_environment_values(SECRET, self.secrets)
SetSecrets ==
  /\ pc = "set_secrets"
  /\ \E ok \in BOOLEAN :
       /\ (self.secrets = EmptyMap => ok)
       /\ AddEnvironmentValues("secret", self.secrets, ok,
            << <<"info", "Locking main branch for repo">> >>, "lock_main_branch")
  /\ UNCHANGED <<config, idx, others, self, remote0, entry, run, environment, existing,
                 todo, to_add, buckets>>

(* ------------------ exists, create_or_update, __main__ ------------------- *)
\* the Python objects the attributes hold, for a well-shaped configuration
Plain(a) ==
  [name |-> Content(a["name"]), org |-> Content(a["org"]),
   fork_url |-> Content(a["fork_url"]), permissions |-> Content(a["permissions"]),
   variables |-> Content(a["variables"]), secrets |-> Content(a["secrets"])]

\* what gh api repos/{org}/{name} writes to stderr, as a sequence of words
NotFoundText == <<"gh:", "Not Found", "(HTTP", "404", ")">>
BareNotFoundText == <<"HTTP", "404">>
ServerErrorText == <<"HTTP", "500">>
\* "word" in text
Contains(text, word) == \E i \in DOMAIN text : text[i] = word
\* the host answers the lookup truthfully or with a failure of its own
Responses(r) ==
  IF r.exists
  THEN {[returncode |-> 0, stderr |-> <<>>], [returncode |-> 1, stderr |-> ServerErrorText]}
  ELSE {[returncode |-> 1, stderr |-> NotFoundText],
        [returncode |-> 1, stderr |-> BareNotFoundText],
        [returncode |-> 1, stderr |-> ServerErrorText]}

\* variant: every non-zero exit status is taken for "not found"
ExistsLenient(result) ==
  IF result.returncode = 0 THEN "True" ELSE "False"

\* exists(): True on exit status 0, False when stderr holds "404" or
\* "Not Found", else ValueError
Exists(result) ==
  IF result.returncode = 0 THEN "True"
  ELSE IF Contains(result.stderr, "404") \/ Contains(result.stderr, "Not Found") THEN "False"
  ELSE "raise"

\* create_or_update(): the lookup, then update() or create(); the key of the
\* lookup call holds what the call wrote to stderr
CreateOrUpdate ==
  /\ pc = "create_or_update"
  /\ \E result \in Responses(remote) :
       /\ calls' = Append(calls, Call("exists", "repo", result.stderr, EmptyMap, result.returncode = 0))
       /\ CASE Exists(result) = "True" ->
                 /\ pc' = "update"
                 /\ entry' = "update"
                 /\ UNCHANGED <<stdout, error>>
            [] Exists(result) = "False" ->
                 /\ pc' = "create"
                 /\ entry' = "create"
                 /\ UNCHANGED <<stdout, error>>
            [] OTHER ->
                 /\ Raise(<<"ValueError", "Unable to determine if repo exists", self.org, self.name>>,
                          << <<"error", "Error checking if repo exists", self.org, self.name>> >>)
                 /\ UNCHANGED entry
  /\ UNCHANGED <<config, idx, others, self, remote, remote0, run, environment, existing,
                 todo, to_add, buckets>>

\* the repositories a run may find on the host for a name
HostStates == {NoRemote, Remote(EmptyMap, EmptyMap, EmptyMap, FALSE)}

\* variant: a raised exception does not end the loop
MainLoopCarryOn ==
  /\ pc \in {"main", "done", "raised"}
  /\ idx < Len(config.repos)
  /\ LET host == IF idx = 0 THEN others ELSE Put(others, self.name, remote)
         repo == config.repos[idx + 1]
         common == config.common
     IN  /\ idx' = idx + 1
         /\ IF Unresolved(repo, common) = {}
            THEN /\ self' = Plain(Attributes(repo, common))
                 /\ others' = Del(host, self'.name)
                 /\ IF self'.name \in DOMAIN host
                    THEN remote' = host[self'.name]
                    ELSE remote' \in HostStates
                 /\ remote0' = remote'
                 /\ pc' = "create_or_update"
                 /\ UNCHANGED <<stdout, error>>
            ELSE /\ Raise(<<"ValueError", "No value found for field", FirstUnresolved(repo, common)>>, <<>>)
                 /\ others' = host
                 /\ UNCHANGED <<self, remote, remote0>>
  /\ UNCHANGED <<config, entry, run, environment, existing, todo, to_add, buckets, calls>>

\* for repo in config.get("repos", []): Repo(repo, config["common"]), whose
\* __init__ resolves every attribute, then create_or_update(); the program ends
\* after the last entry
MainLoop ==
  /\ pc \in {"main", "done"}
  /\ LET host == IF idx = 0 THEN others ELSE Put(others, self.name, remote) IN
     IF idx = Len(config.repos)
     THEN /\ pc' = "exit"
          /\ others' = host
          /\ UNCHANGED <<idx, self, remote, remote0, stdout, error>>
     ELSE LET repo == config.repos[idx + 1]
              common == config.common
          IN  /\ idx' = idx + 1
              /\ IF Unresolved(repo, common) = {}
                 THEN /\ self' = Plain(Attributes(repo, common))
                      /\ others' = Del(host, self'.name)
                      /\ IF self'.name \in DOMAIN host
                         THEN remote' = host[self'.name]
                         ELSE remote' \in HostStates
                      /\ remote0' = remote'
                      /\ pc' = "create_or_update"
                      /\ UNCHANGED <<stdout, error>>
                 ELSE /\ Raise(<<"ValueError", "No value found for field", FirstUnresolved(repo, common)>>, <<>>)
                      /\ others' = host
                      /\ UNCHANGED <<self, remote, remote0>>
  /\ UNCHANGED <<config, entry, run, environment, existing, todo, to_add, buckets, calls>>

(* ----------------------------- invocations ------------------------------ *)
\* no configuration file: the Repo object is handed over as it is
NoConfig == [common |-> EmptyMap, repos |-> <<>>]

\* a fresh invocation of method e on Repo object s against remote r
Start(e, s, r) ==
  /\ config = NoConfig
  /\ idx = 0
  /\ others = EmptyMap
  /\ entry = e
  /\ pc = e
  /\ self = s
  /\ remote = r
  /\ remote0 = r
  /\ run = 1
  /\ environment = "none"
  /\ existing = EmptyMap
  /\ todo = {}
  /\ to_add = EmptyMap
  /\ buckets = NoBuckets
  /\ stdout = <<>>
  /\ calls = <<>>
  /\ error = <<>>

\* the same method is invoked again once it has returned: locals, output and
\* the call history start afresh, the Repo object and the remote stay
Rerun ==
  /\ pc = "done"
  /\ run < MaxRuns
  /\ run' = run + 1
  /\ pc' = entry
  /\ remote0' = remote
  /\ environment' = "none"
  /\ existing' = EmptyMap
  /\ todo' = {}
  /\ to_add' = EmptyMap
  /\ buckets' = NoBuckets
  /\ stdout' = <<>>
  /\ calls' = <<>>
  /\ UNCHANGED <<config, idx, others, self, remote, entry, error>>

RepoObject(p, v, s) ==
  [name |-> "repo1", org |-> "acme", fork_url |-> "upstream/repo1",
   permissions |-> p, variables |-> v, secrets |-> s]

\* repo.update_permissions() for every desired and every remote mapping
InitPermissions ==
  \E d, e \in Maps(Teams(MaxKeys), Levels) :
    Start("update_permissions", RepoObject(d, EmptyMap, EmptyMap),
          Remote(e, EmptyMap, EmptyMap, FALSE))

\* repo.update_variables() / repo.update_secrets() likewise
InitEnvironment ==
  \E d, e \in Maps(Names(MaxKeys), Values) :
    \/ Start("update_variables", RepoObject(EmptyMap, d, EmptyMap),
             Remote(EmptyMap, e, EmptyMap, FALSE))
    \/ Start("update_secrets", RepoObject(EmptyMap, EmptyMap, d),
             Remote(EmptyMap, EmptyMap, e, FALSE))

\* repo.update() on an existing repository
InitUpdate ==
  \E dp, ep \in Maps(Teams(MaxFlowKeys), FlowLevels) :
    \E dv, ev, ds, es \in Maps(Names(MaxFlowKeys), FlowValues) :
      \E l \in BOOLEAN :
        Start("update", RepoObject(dp, dv, ds), Remote(ep, ev, es, l))

\* repo.create() for a repository the host does not have
InitCreate ==
  \E dp \in Maps(Teams(MaxKeys), Levels) :
    \E dv, ds \in Maps(Names(MaxKeys), FlowValues) :
      Start("create", RepoObject(dp, dv, ds), NoRemote)

\* the token a repo-level collection may carry, per collection field
InheritanceToken ==
  [secrets |-> "common.secrets", variables |-> "common.variables",
   permissions |-> "common.permissions"]
ScalarFields == {"name", "fork_url", "org"}
CollectionFields == DOMAIN InheritanceToken

\* a key a config section does not have
Absent == <<"absent">>
With(section, field_name, x) ==
  IF x = Absent THEN section ELSE Put(section, field_name, x)

\* what a config section may hold for org and for permissions
OrgEntries == {Absent, Null, Str("acme"), Str("other"), List(<<"acme">>)}
PermissionsEntries ==
  {Absent, Null, Str("admin"), List(<<"x">>), List(<<"common.permissions", "x">>),
   List(<<"y", "z">>), Dict("teamA" :> "write")}
\* the keys the sections always hold
RepoSection == [name |-> Str("repo1")]
CommonSection ==
  [fork_url |-> Str("upstream/base"), secrets |-> Dict(EmptyMap),
   variables |-> Dict("API_KEY" :> "abc123")]

\* Repo(repo, common) for every combination of the two sections
InitConstruct ==
  \E ro, co \in OrgEntries : \E rp, cp \in PermissionsEntries :
    /\ config = [common |-> With(With(CommonSection, "org", co), "permissions", cp),
                 repos |-> << With(With(RepoSection, "org", ro), "permissions", rp) >>]
    /\ idx = 0
    /\ others = EmptyMap
    /\ self = EmptyMap
    /\ remote = NoRemote
    /\ remote0 = NoRemote
    /\ entry = "construct"
    /\ pc = "construct"
    /\ run = 1
    /\ environment = "none"
    /\ existing = EmptyMap
    /\ todo = {}
    /\ to_add = EmptyMap
    /\ buckets = NoBuckets
    /\ stdout = <<>>
    /\ calls = <<>>
    /\ error = <<>>

\* the names of the entries of the repos list
RepoNames == <<"repo1", "repo2", "repo3", "repo4">>
\* what the sections of config.json may hold for org and for permissions
CommonOrg == {Absent, Null, Str("acme")}
CommonPermissions == {Absent, Null, Dict("teamA" :> "write")}
RepoOrg == {Absent, Null, Str("other")}
RepoPermissions == {Absent, Null, Dict("teamB" :> "admin")}
\* no Repo object has been constructed yet
NoObject ==
  [name |-> "", org |-> "", fork_url |-> "", permissions |-> EmptyMap,
   variables |-> EmptyMap, secrets |-> EmptyMap]

\* python repo-manager.py for every config.json with up to MaxRepos entries
InitMain ==
  \E n \in 0..MaxRepos : \E co \in CommonOrg : \E cp \in CommonPermissions :
    \E ro \in [1..n -> RepoOrg] : \E rp \in [1..n -> RepoPermissions] :
      /\ config = [common |-> With(With(CommonSection, "org", co), "permissions", cp),
                   repos |-> [i \in 1..n |->
                     With(With([name |-> Str(RepoNames[i])], "org", ro[i]), "permissions", rp[i])]]
      /\ idx = 0
      /\ others = EmptyMap
      /\ self = NoObject
      /\ remote = NoRemote
      /\ remote0 = NoRemote
      /\ entry = "create_or_update"
      /\ pc = "main"
      /\ run = 1
      /\ environment = "none"
      /\ existing = EmptyMap
      /\ todo = {}
      /\ to_add = EmptyMap
      /\ buckets = NoBuckets
      /\ stdout = <<>>
      /\ calls = <<>>
      /\ error = <<>>

NextPermissions ==
  \/ UpdatePermissionsFetch
  \/ UpdatePermissionsStep
  \/ UpdatePermissionsPrint
  \/ Rerun

NextEnvironment ==
  \/ UpdateEnvironmentFetch
  \/ UpdateEnvironmentStep
  \/ UpdateEnvironmentApply
  \/ Rerun

NextUpdate ==
  \/ Update
  \/ UpdatePermissionsFetch
  \/ UpdatePermissionsStep
  \/ UpdatePermissionsPrint
  \/ UpdateEnvironmentFetch
  \/ UpdateEnvironmentStep
  \/ UpdateEnvironmentApply
  \/ LockMainBranch
  \/ Rerun

NextCreate ==
  \/ Create
  \/ SetPermissionsStep
  \/ SetPermissionsReturn
  \/ SetVariables
  \/ SetSecrets
  \/ LockMainBranch
  \/ Rerun

NextMain ==
  \/ MainLoop
  \/ CreateOrUpdate
  \/ Update
  \/ UpdatePermissionsFetch
  \/ UpdatePermissionsStep
  \/ UpdatePermissionsPrint
  \/ UpdateEnvironmentFetch
  \/ UpdateEnvironmentStep
  \/ UpdateEnvironmentApply
  \/ Create
  \/ SetPermissionsStep
  \/ SetPermissionsReturn
  \/ SetVariables
  \/ SetSecrets
  \/ LockMainBranch

Init == InitPermissions \/ InitEnvironment \/ InitUpdate
Next == NextUpdate

SpecPermissions == InitPermissions /\ [][NextPermissions]_vars
SpecEnvironment == InitEnvironment /\ [][NextEnvironment]_vars
SpecUpdate == InitUpdate /\ [][NextUpdate]_vars
SpecCreate == InitCreate /\ [][NextCreate]_vars
SpecMain == InitMain /\ [][NextMain]_vars
SpecConstruct == InitConstruct /\ [][Construct]_vars
Spec == Init /\ [][Next]_vars

(* ============================ properties ================================ *)
\* the configured mapping of a resource kind
Desired(kind) ==
  CASE kind = "permission" -> self.permissions
    [] kind = "variable" -> self.variables
    [] kind = "secret" -> self.secrets

Max(S) == CHOOSE x \in S : \A y \in S : y <= x

\* positions of the calls of an operation on a kind
CallsOf(op, kind) == {i \in DOMAIN calls : calls[i].op = op /\ calls[i].kind = kind}
Mutating(kind) == CallsOf("set", kind) \cup CallsOf("remove", kind)
ListCalls == {i \in DOMAIN calls : calls[i].op = "list"}
\* a snapshot has been fetched and the kind it was fetched for
Fetched == ListCalls # {} /\ calls[Max(ListCalls)].ok
CurrentKind == calls[Max(ListCalls)].kind

BucketNames == {"overwritten", "edited", "added", "removed", "unchanged"}
\* the places (bucket, position) of the report lines, and those of one key
Places == UNION {{<<b, i>> : i \in DOMAIN buckets[b]} : b \in BucketNames}
PlacesOf(k) == {p \in Places : buckets[p[1]][p[2]][1] = k}
LinesOf(b) == {buckets[b][i] : i \in DOMAIN buckets[b]}
KeysOf(b) == {l[1] : l \in LinesOf(b)}

\* the keys present on both sides, on one side only, when the invocation began
InBoth(kind) == DOMAIN remote0[kind] \cap DOMAIN Desired(kind)
OnlyDesired(kind) == DOMAIN Desired(kind) \ DOMAIN remote0[kind]
OnlyExisting(kind) == DOMAIN remote0[kind] \ DOMAIN Desired(kind)
UnionKeys(kind) == DOMAIN remote0[kind] \cup DOMAIN Desired(kind)

\* C1: the buckets partition keys(existing) \cup keys(desired): every key the
\* loop has visited lies in exactly one bucket, exactly once, no unvisited key
\* and no key outside the union lies in any; once the loop is over every key
\* of the union is placed.  Permissions have no overwritten bucket.
C1_Partition ==
  Fetched =>
    /\ todo \subseteq UnionKeys(CurrentKind)
    /\ \A k \in UnionKeys(CurrentKind) \ todo : Cardinality(PlacesOf(k)) = 1
    /\ \A k \in todo : PlacesOf(k) = {}
    /\ \A p \in Places : buckets[p[1]][p[2]][1] \in UnionKeys(CurrentKind)
    /\ CurrentKind = "permission" => buckets.overwritten = <<>>

\* a variable reconciliation has returned with keys in two different buckets
C1_Witness ==
  /\ pc = "done"
  /\ entry = "update_variables"
  /\ buckets.edited # <<>>
  /\ buckets.removed # <<>>

\* C2: a second invocation against the state the first one left behind issues
\* no set and no remove call for permissions and for variables.
C2_Idempotent ==
  run > 1 => Mutating("permission") \cup Mutating("variable") = {}

\* the sections of the report printed for a kind: those after its header
HeaderBefore(i) == stdout[Max({j \in 1..i : stdout[j][1] = "header"})][2]
SectionsOf(kind) ==
  {i \in DOMAIN stdout : stdout[i][1] = "section" /\ HeaderBefore(i) = Header(kind)}
TitlesOf(kind) == {stdout[i][2] : i \in SectionsOf(kind)}
\* the lines printed under a title of the report of a kind
PrintedLines(kind, title) ==
  UNION {{stdout[i][3][j] : j \in DOMAIN stdout[i][3]} :
           i \in {x \in SectionsOf(kind) : stdout[x][2] = title}}
\* the values a report line shows
ShownValues(line) == IF Len(line) = 2 THEN {line[2]} ELSE {line[2], line[4]}

\* C3: every value shown by a line of the secrets report, in every section,
\* is the opaque marker; no configured and no remote secret value is printed.
C3_Redaction ==
  \A i \in SectionsOf("secret") :
    \A j \in DOMAIN stdout[i][3] : ShownValues(stdout[i][3][j]) = {Marker}

\* a secrets report with an Added and an Overwritten line has been printed for
\* secrets whose configured and stored values are literal strings
C3_Witness ==
  /\ pc = "done"
  /\ {"Added", "Overwritten"} \subseteq TitlesOf("secret")
  /\ \A k \in DOMAIN self.secrets : self.secrets[k] # Marker
  /\ \A k \in DOMAIN remote0.secret : remote0.secret[k] # Marker

Kinds == {"permission", "variable", "secret"}
ReportHeader(kind) == IF kind = "permission" THEN "Permissions:" ELSE Header(kind)
\* the reconciliation of a kind has returned: its report is printed last
Completed(kind) == \E i \in DOMAIN stdout : stdout[i] = <<"header", ReportHeader(kind)>>
\* the keys a mutating call acts on
Touched(i) == ({calls[i].key} \ {""}) \cup DOMAIN calls[i].values
\* the remote value of k was there, readable, and already the configured one
AlreadyRight(kind, k) ==
  /\ kind # "secret"
  /\ k \in InBoth(kind)
  /\ remote0[kind][k] = Desired(kind)[k]

\* C4 (convergence): once the reconciliation of a kind has returned, the
\* remote mapping of the kind equals the configured one.
C4_Converged ==
  \A kind \in Kinds : Completed(kind) => remote[kind] = Desired(kind)

\* C4: convergence, and no mutating call of the completed reconciliation touches a key whose remote value was
\* observable and already equal to the configured value.
C4_ConvergedMinimal ==
  \A kind \in Kinds :
    Completed(kind) =>
      /\ remote[kind] = Desired(kind)
      /\ \A i \in Mutating(kind) : \A k \in Touched(i) : ~AlreadyRight(kind, k)

\* the teams whose level differs between the two sides
Differing(kind) == {k \in InBoth(kind) : remote0[kind][k] # Desired(kind)[k]}
KeysCalled(op, kind) == {calls[i].key : i \in CallsOf(op, kind)}

\* C5: every permission set call carries the configured level of a team that
\* was absent remotely or had another level; every permission remove call
\* names a team that was remote only; no team gets two mutating calls; and when
\* the reconciliation has returned, each Added and Edited team has got its set
\* call, each Removed team its remove call, and an Unchanged team none.
C5_PermissionCalls ==
  /\ \A i \in CallsOf("set", "permission") :
       /\ calls[i].key \in OnlyDesired("permission") \cup Differing("permission")
       /\ calls[i].values = (calls[i].key :> self.permissions[calls[i].key])
  /\ \A i \in CallsOf("remove", "permission") :
       calls[i].key \in OnlyExisting("permission")
  /\ \A i, j \in Mutating("permission") : calls[i].key = calls[j].key => i = j
  /\ Completed("permission") =>
       /\ KeysCalled("set", "permission") = OnlyDesired("permission") \cup Differing("permission")
       /\ KeysCalled("remove", "permission") = OnlyExisting("permission")

\* the remote held teamA and the configuration names TeamA at the same level:
\* the two slugs are different teams, one removed and one added
C5_Witness ==
  /\ Completed("permission")
  /\ remote0.permission = ("teamA" :> "write")
  /\ self.permissions = ("TeamA" :> "write")
  /\ KeysCalled("set", "permission") = {"TeamA"}
  /\ KeysCalled("remove", "permission") = {"teamA"}

\* a team with the same level on both sides got no call, another team one set call
C5_WitnessUnchanged ==
  /\ Completed("permission")
  /\ \E k \in InBoth("permission") : remote0.permission[k] = self.permissions[k]
  /\ Cardinality(Mutating("permission")) = 1
  /\ CallsOf("set", "permission") # {}

\* the keys a successful bulk set call of a kind carried, with their values
ValuesSet(kind) == {calls[i].values : i \in CallsOf("set", kind)}

\* the classification of the variables the loop has visited, as the
\* specification words it
VariablesClassified ==
  (Fetched /\ CurrentKind = "variable") =>
    /\ \A k \in OnlyDesired("variable") \ todo :
         Line1(k, self.variables[k]) \in LinesOf("added")
    /\ \A k \in OnlyExisting("variable") \ todo :
         Line1(k, remote0.variable[k]) \in LinesOf("removed")
    /\ \A k \in Differing("variable") \ todo :
         Line2(k, remote0.variable[k], self.variables[k]) \in LinesOf("edited")
    /\ \A k \in (InBoth("variable") \ Differing("variable")) \ todo :
         Line1(k, remote0.variable[k]) \in LinesOf("unchanged")

\* the calls of a variable reconciliation that has returned
VariablesApplied ==
  Completed("variable") =>
    /\ KeysCalled("remove", "variable") = OnlyExisting("variable")
    /\ UNION {DOMAIN v : v \in ValuesSet("variable")}
         = OnlyDesired("variable") \cup Differing("variable")
    /\ \A v \in ValuesSet("variable") : \A k \in DOMAIN v : v[k] = self.variables[k]

\* C6: variables are classified Added / Removed / Edited / Unchanged by the
\* literal observed value, set or removed accordingly, and never Overwritten.
C6_Variables ==
  /\ VariablesClassified
  /\ VariablesApplied
  /\ (Fetched /\ CurrentKind = "variable") => buckets.overwritten = <<>>

\* the same for remote variables none of which holds the string "***"
C6_LiteralVariables ==
  (\A k \in DOMAIN remote0.variable : remote0.variable[k] # Marker) => C6_Variables

\* C7: a secret present remotely and in the configuration is put in the
\* Overwritten bucket with the line "NAME: *** => ***", never in Edited or
\* Unchanged, is queued with its configured value, and the set call of a
\* reconciliation that has returned carries it with that value -- on every
\* invocation, whatever value the remote stores.
C7_SecretsOverwritten ==
  /\ (Fetched /\ CurrentKind = "secret") =>
       \A k \in InBoth("secret") \ todo :
         /\ <<k, "***", "=>", "***">> \in LinesOf("overwritten")
         /\ k \notin KeysOf("edited") \cup KeysOf("unchanged")
         /\ pc = "update_environment_loop" =>
              (k \in DOMAIN to_add /\ to_add[k] = self.secrets[k])
  /\ Completed("secret") =>
       \A k \in InBoth("secret") :
         /\ <<k, "***", "=>", "***">> \in PrintedLines("secret", "Overwritten")
         /\ \E i \in CallsOf("set", "secret") :
              /\ calls[i].ok
              /\ k \in DOMAIN calls[i].values
              /\ calls[i].values[k] = self.secrets[k]

\* a second invocation has re-applied a secret whose stored value was already
\* the configured one
C7_Witness ==
  /\ run = 2
  /\ Completed("secret")
  /\ \E k \in InBoth("secret") :
       /\ remote0.secret[k] = self.secrets[k]
       /\ \E i \in CallsOf("set", "secret") : k \in DOMAIN calls[i].values

\* what a listing of the kind showed when the invocation began
ObservedAtStart(kind) ==
  IF kind = "secret" THEN [k \in DOMAIN remote0.secret |-> Marker] ELSE remote0[kind]

\* C8 as stated: while a set or remove call of the kind has been issued, no
\* key of the union is still unclassified.
C8_ClassifiedBeforeCalls ==
  \A kind \in Kinds :
    (Fetched /\ CurrentKind = kind /\ Mutating(kind) # {}) => todo = {}

\* C8 as amended: a kind is listed at most once per invocation, the listing
\* has succeeded before any set or remove call of the kind; the snapshot stays
\* what the remote showed at that time whatever the calls change since; a
\* call acts only on keys already classified, the bulk set of secrets and
\* variables only after every key is classified -- but permission calls and
\* secret/variable removals are issued while other keys are unclassified.
C8_SnapshotOnce ==
  \A kind \in Kinds :
    /\ Cardinality(CallsOf("list", kind)) <= 1
    /\ \A i \in Mutating(kind) :
         \E j \in CallsOf("list", kind) : j < i /\ calls[j].ok
    /\ (Fetched /\ CurrentKind = kind) =>
         /\ existing = ObservedAtStart(kind)
         /\ \A i \in Mutating(kind) : Touched(i) \cap todo = {}
         /\ (kind # "permission" /\ CallsOf("set", kind) # {}) => todo = {}
         /\ KeysOf("removed") \subseteq OnlyExisting(kind)
         /\ KeysOf("added") \subseteq OnlyDesired(kind)

\* a permission call has changed the remote while a team is still to classify
C8_Witness ==
  /\ pc = "update_permissions_loop"
  /\ todo # {}
  /\ Mutating("permission") # {}
  /\ remote.permission # remote0.permission
  /\ existing = remote0.permission

CallsOfKind(kind) == {i \in DOMAIN calls : calls[i].kind = kind}
\* the place of a call in the order sync, permissions, variables, secrets, lock
Rank(c) ==
  CASE c.kind = "repo" -> 0
    [] c.kind = "permission" -> 1
    [] c.kind = "variable" -> 2
    [] c.kind = "secret" -> 3
    [] c.kind = "branch" -> 4

\* C9 as stated: update() reconciles permissions, then secrets, then
\* variables: a secret call comes only after the permission reconciliation has
\* finished, a variable call only after the secret reconciliation has.
C9_PermissionsSecretsVariables ==
  /\ CallsOfKind("secret") # {} => Completed("permission")
  /\ CallsOfKind("variable") # {} => Completed("secret")

\* C9 as amended: update() reconciles permissions, then variables, then
\* secrets: a variable call comes only after the permission reconciliation has
\* finished, a secret call only after the variable reconciliation has, the
\* calls of the three kinds never interleave, and the branch is locked after
\* all three.
C9_PermissionsVariablesSecrets ==
  /\ CallsOfKind("variable") # {} => Completed("permission")
  /\ CallsOfKind("secret") # {} => Completed("variable")
  /\ CallsOfKind("branch") # {} => Completed("secret")
  /\ \A i, j \in DOMAIN calls : i < j => Rank(calls[i]) <= Rank(calls[j])
  /\ \A kind \in Kinds : Completed(kind) => CallsOf("list", kind) # {}

\* update() has returned after changing permissions, variables and secrets
C9_Witness ==
  /\ entry = "update"
  /\ pc = "done"
  /\ \A kind \in Kinds : Mutating(kind) # {}

\* the entries the report of the current reconciliation calls changed
ChangedKeys == KeysOf("added") \cup KeysOf("edited") \cup KeysOf("overwritten")

\* C10 as stated: a secret/variable reconciliation that has returned issued
\* one set call per Added, Edited or Overwritten entry.
C10_OneCallPerEntry ==
  \A kind \in {"variable", "secret"} :
    (Fetched /\ CurrentKind = kind /\ Completed(kind)) =>
      Cardinality(CallsOf("set", kind)) = Cardinality(ChangedKeys)

\* C10 as amended: a secret/variable reconciliation issues at most one set
\* call, a bulk call for the configured values of several names; when it has
\* returned it issued none if no entry is Added, Edited or Overwritten, and
\* else exactly one, successful, carrying exactly those entries.
C10_BulkSet ==
  \A kind \in {"variable", "secret"} :
    /\ Cardinality(CallsOf("set", kind)) <= 1
    /\ \A i \in CallsOf("set", kind) :
         /\ calls[i].key = ""
         /\ calls[i].values # EmptyMap
         /\ \A k \in DOMAIN calls[i].values : calls[i].values[k] = Desired(kind)[k]
    /\ (Fetched /\ CurrentKind = kind /\ Completed(kind)) =>
         /\ ChangedKeys = {} => CallsOf("set", kind) = {}
         /\ ChangedKeys # {} =>
              \E i \in CallsOf("set", kind) :
                calls[i].ok /\ DOMAIN calls[i].values = ChangedKeys

\* a variable reconciliation has returned after one set call for two entries,
\* one of them Edited and one Added
C10_Witness ==
  /\ pc = "done"
  /\ Completed("variable")
  /\ buckets.edited # <<>>
  /\ buckets.added # <<>>
  /\ Cardinality(CallsOf("set", "variable")) = 1
  /\ \E i \in CallsOf("set", "variable") : Cardinality(DOMAIN calls[i].values) = 2

\* the positions of the calls that returned non-success
FailedCalls == {i \in DOMAIN calls : ~calls[i].ok}
\* the effect of a successful call is still there
StillApplied(i) ==
  CASE calls[i].op = "set" ->
         \A k \in DOMAIN calls[i].values :
           k \in DOMAIN remote[calls[i].kind]
             /\ remote[calls[i].kind][k] = calls[i].values[k]
    [] calls[i].op = "remove" -> calls[i].key \notin DOMAIN remote[calls[i].kind]
    [] OTHER -> TRUE

\* C11: a call that returned non-success is the last call issued: an error is
\* raised and the program is over, so no later name, no later kind and no
\* branch lock is attempted and nothing is retried; the calls that succeeded
\* before it keep their effect on the remote.
C11_FailFast ==
  /\ \A i \in FailedCalls : i = Len(calls) /\ pc = "raised" /\ error # <<>>
  /\ pc = "raised" => (FailedCalls # {} /\ \A i \in DOMAIN calls : calls[i].ok => StillApplied(i))

\* update() has raised on a variable call after a permission call changed the
\* remote; secrets and the branch lock were never attempted
C11_Witness ==
  /\ entry = "update"
  /\ pc = "raised"
  /\ \E i \in Mutating("permission") : calls[i].ok
  /\ remote.permission # remote0.permission
  /\ calls[Len(calls)].kind = "variable"
  /\ calls[Len(calls)].op \in {"set", "remove"}
  /\ CallsOfKind("secret") = {}
  /\ CallsOfKind("branch") = {}

\* the remote entry of a key is what it was when the invocation began
Untouched(kind, k) ==
  /\ (k \in DOMAIN remote[kind]) = (k \in DOMAIN remote0[kind])
  /\ k \in DOMAIN remote[kind] => remote[kind][k] = remote0[kind][k]

\* C17: in update_environment every remove call precedes the bulk set call;
\* the bulk set is issued only when every removal has been issued and has
\* succeeded and some entry is Added, Edited or Overwritten; after a failed
\* removal no set call is issued and no configured entry has changed remotely.
C17_RemovalsThenBulkSet ==
  \A kind \in {"variable", "secret"} :
    /\ \A i \in CallsOf("remove", kind) : \A j \in CallsOf("set", kind) : i < j
    /\ CallsOf("set", kind) # {} =>
         /\ \A i \in CallsOf("remove", kind) : calls[i].ok
         /\ KeysCalled("remove", kind) = OnlyExisting(kind)
         /\ (Fetched /\ CurrentKind = kind) => ChangedKeys # {}
    /\ (\E i \in CallsOf("remove", kind) : ~calls[i].ok) =>
         /\ CallsOf("set", kind) = {}
         /\ \A k \in DOMAIN Desired(kind) : Untouched(kind, k)

\* a removal has failed after an entry was queued for the bulk set: the entry
\* is not applied
C17_Witness ==
  /\ pc = "raised"
  /\ calls[Len(calls)].op = "remove"
  /\ calls[Len(calls)].kind = "variable"
  /\ to_add # EmptyMap
  /\ \E k \in DOMAIN to_add : k \notin DOMAIN remote.variable

\* C18: update() issues the sync first and once, and nothing else when it
\* fails; the branch lock is issued at most once, as the last call, after the
\* reports of permissions, variables and secrets were printed and every
\* earlier call succeeded; update() returns only after a successful lock.
C18_SyncFirstLockLast ==
  /\ calls # <<>> => (calls[1].op = "sync" /\ CallsOf("sync", "repo") = {1})
  /\ (calls # <<>> /\ ~calls[1].ok) => Len(calls) = 1
  /\ Cardinality(CallsOfKind("branch")) <= 1
  /\ \A i \in CallsOfKind("branch") :
       /\ i = Len(calls)
       /\ \A kind \in Kinds : Completed(kind)
       /\ \A j \in 1..(i - 1) : calls[j].ok
  /\ pc = "done" => (CallsOfKind("branch") # {} /\ calls[Len(calls)].ok /\ remote.locked)
  /\ (pc = "raised" /\ calls[Len(calls)].kind # "branch") => CallsOfKind("branch") = {}

\* update() has returned: the lock was the last call and locked the branch
C18_Witness ==
  /\ entry = "update"
  /\ pc = "done"
  /\ ~remote0.locked
  /\ remote.locked
  /\ calls[Len(calls)].op = "lock"
  /\ Len(calls) > 5

\* update() has raised during the secrets reconciliation: no lock call
C18_WitnessNoLock ==
  /\ entry = "update"
  /\ pc = "raised"
  /\ calls[Len(calls)].kind = "secret"
  /\ CallsOfKind("branch") = {}

(* -------------------------------- C19 ----------------------------------- *)
\* how far create() has come: the stage of the statement it is at, and for a
\* raised exception the stage of the call that failed
CreateStage ==
  CASE pc = "create" -> 0
    [] pc = "set_permissions" -> 1
    [] pc = "set_variables" -> 2
    [] pc = "set_secrets" -> 3
    [] pc = "lock_main_branch" -> 4
    [] pc = "done" -> 5
    [] pc = "raised" -> Rank(calls[Len(calls)])
\* the teams a successful permission set call was issued for
TeamsSet == {calls[i].key : i \in {j \in CallsOf("set", "permission") : calls[j].ok}}

\* C19: create() issues the fork first and once, then one permission set per
\* desired team, then the bulk variable set, then the bulk secret set, then the
\* branch lock; it issues no list and no remove call; a kind whose desired
\* mapping is empty gets no bulk set; the first failing call is the last call,
\* so after a failed fork nothing else is issued.
C19_CreateOrder ==
  /\ \A i \in DOMAIN calls : calls[i].op \in {"fork", "set", "lock"}
  /\ calls # <<>> => (calls[1].op = "fork" /\ CallsOf("fork", "repo") = {1})
  /\ \A i, j \in DOMAIN calls : i < j => Rank(calls[i]) <= Rank(calls[j])
  /\ \A i \in FailedCalls : i = Len(calls) /\ pc = "raised"
  /\ \A i, j \in CallsOf("set", "permission") :
       /\ calls[i].key \in DOMAIN self.permissions
       /\ calls[i].values = (calls[i].key :> self.permissions[calls[i].key])
       /\ calls[i].key = calls[j].key => i = j
  /\ CreateStage > 1 => TeamsSet = DOMAIN self.permissions
  /\ \A kind \in {"variable", "secret"} :
       /\ Cardinality(CallsOf("set", kind)) <= 1
       /\ \A i \in CallsOf("set", kind) :
            calls[i].values = Desired(kind) /\ Desired(kind) # EmptyMap
       /\ CreateStage > Rank([kind |-> kind]) =>
            (CallsOf("set", kind) = {} <=> Desired(kind) = EmptyMap)
  /\ Cardinality(CallsOf("lock", "branch")) <= 1
  /\ CreateStage > 4 => (CallsOf("lock", "branch") = {Len(calls)} /\ remote.locked)

\* create() has returned for two teams and a variable and no secret: fork, two
\* permission sets, one bulk variable set, no secret call, the lock
C19_Witness ==
  /\ entry = "create"
  /\ run = 1
  /\ pc = "done"
  /\ ~remote0.exists
  /\ Cardinality(DOMAIN self.permissions) = 2
  /\ self.variables # EmptyMap
  /\ self.secrets = EmptyMap
  /\ Len(calls) = 5

\* the fork has failed for a repository with desired teams: the only call
C19_WitnessForkFailed ==
  /\ entry = "create"
  /\ pc = "raised"
  /\ calls = << Call("fork", "repo", self.fork_url, EmptyMap, FALSE) >>
  /\ self.permissions # EmptyMap

(* -------------------------------- C16 ----------------------------------- *)
\* the call whose failure raised the error
FailedCall == calls[Len(calls)]
MutatingFailed ==
  pc = "raised" /\ FailedCall.op \in {"set", "remove"} /\ ~FailedCall.ok
\* the resource kind the message of the error names
ErrorKind ==
  IF error[2] \in {"Failed to set permission", "Failed to remove permissions"}
  THEN "permission" ELSE error[3]
\* the values interpolated into the message of the error
ErrorFields == {error[i] : i \in 3..Len(error)}
BulkSetFailed == MutatingFailed /\ FailedCall.op = "set" /\ FailedCall.kind # "permission"
\* the error of a failed per-entry call names the kind and the entry
PerEntryIdentified ==
  (MutatingFailed /\ ~BulkSetFailed) =>
    /\ error[1] = "ValueError"
    /\ ErrorKind = FailedCall.kind
    /\ FailedCall.key \in ErrorFields
    /\ (FailedCall.op = "set" => FailedCall.values[FailedCall.key] \in ErrorFields)

\* C16 as stated: the error of every failed mutating call names the kind and
\* the entry: team and level for a permission set, team for a permission
\* removal, kind and name for a secret/variable set or removal.
C16_ErrorNamesEntry ==
  /\ PerEntryIdentified
  /\ BulkSetFailed =>
       /\ ErrorKind = FailedCall.kind
       /\ DOMAIN FailedCall.values \subseteq ErrorFields

\* C16 amended: team and level for a permission set, team for a permission
\* removal, kind and name for a secret/variable removal; the error of a failed
\* bulk secret/variable set names the kind and the repository and none of the
\* names the call carried.
C16_ErrorNamesCall ==
  /\ PerEntryIdentified
  /\ BulkSetFailed =>
       /\ error = <<"ValueError", "Failed to set", FailedCall.kind, self.name>>
       /\ DOMAIN FailedCall.values # {}
       /\ DOMAIN FailedCall.values \cap ErrorFields = {}

\* a bulk secret set carrying two names has failed
C16_Witness ==
  /\ BulkSetFailed
  /\ FailedCall.kind = "secret"
  /\ Cardinality(DOMAIN FailedCall.values) = 2

\* a permission set has failed: the error carries the level and the team
C16_WitnessPermission ==
  /\ MutatingFailed
  /\ FailedCall.kind = "permission"
  /\ FailedCall.op = "set"
  /\ error = <<"ValueError", "Failed to set permission", "admin", FailedCall.key, self.name>>

(* ----------------------------- C13, C15 --------------------------------- *)
\* the two sections Repo was constructed from
RepoCfg == config.repos[1]
CommonCfg == config.common
Has(section, field_name) == field_name \in DOMAIN section /\ Shape(section[field_name]) # "null"
HasToken(field_name) ==
  /\ Has(RepoCfg, field_name)
  /\ Shape(RepoCfg[field_name]) = "list"
  /\ \E i \in DOMAIN Content(RepoCfg[field_name]) :
       Content(RepoCfg[field_name])[i] = InheritanceToken[field_name]
\* the items of a list other than the token, in their order
WithoutToken(q, token) == SelectSeq(q, LAMBDA x : x # token)

\* C13: a repo-level collection that carries the token "common.<field>"
\* resolves to its own items without the token followed by the items of the
\* common collection, and to a missing-field error when the common config has
\* no such field.
C13_TokenSpliced ==
  \A f \in CollectionFields :
    (/\ pc \in {"constructed", "raised"}
     /\ HasToken(f)
     /\ \A g \in FieldNames \ {f} : Shape(GetField(RepoCfg, CommonCfg, g)) # "null") =>
      IF ~Has(CommonCfg, f)
      THEN pc = "raised" /\ error = <<"ValueError", "No value found for field", f>>
      ELSE Shape(CommonCfg[f]) = "list" =>
             /\ pc = "constructed"
             /\ self[f] = List(WithoutToken(Content(RepoCfg[f]), InheritanceToken[f])
                                \o Content(CommonCfg[f]))

\* C15: an object is constructed only from well-shaped values: name, fork_url
\* and org are scalars, permissions, secrets and variables are collections.
C15_ShapesChecked ==
  pc = "constructed" =>
    /\ \A f \in ScalarFields : Shape(self[f]) = "str"
    /\ \A f \in CollectionFields : Shape(self[f]) \in {"list", "dict"}

(* -------------------------------- C12 ----------------------------------- *)
\* the entry of config.repos the driver is at, and its position by name
CurrentRepo == config.repos[idx]
RepoIndex(name) ==
  CHOOSE k \in DOMAIN config.repos : Content(config.repos[k]["name"]) = name
\* Repo(...) has been called for the current entry and raised / returned
ResolutionFailed ==
  pc = "raised" /\ error[2] = "No value found for field"
Constructing == idx > 0
\* the entry that decides a field: the repo's own when the key is there, else
\* the common one, else none
Deciding(f) ==
  IF f \in DOMAIN CurrentRepo THEN CurrentRepo[f]
  ELSE IF f \in DOMAIN config.common THEN config.common[f]
  ELSE Absent
AbsentFromBoth == {f \in FieldNames : f \notin DOMAIN CurrentRepo /\ f \notin DOMAIN config.common}
WithoutValue == {f \in FieldNames : Shape(Deciding(f)) \in {"absent", "null"}}
\* every attribute holds the deciding entry
AttributesAre(a) ==
  /\ a.name = Content(Deciding("name"))
  /\ a.org = Content(Deciding("org"))
  /\ a.fork_url = Content(Deciding("fork_url"))
  /\ a.permissions = Content(Deciding("permissions"))
  /\ a.variables = Content(Deciding("variables"))
  /\ a.secrets = Content(Deciding("secrets"))
\* no remote call was issued for the current entry
NoCallYet == \A i \in DOMAIN calls : RepoIndex(calls[i].repo) < idx

\* C12 as stated: resolution fails exactly when some field is absent from both
\* sections, so a field the common section has never makes it fail; otherwise
\* every attribute is the repo's own entry when present, else the common one;
\* a failed resolution comes before any remote call of that repository.
C12_FailsIffAbsentFromBoth ==
  Constructing =>
    IF AbsentFromBoth = {}
    THEN ~ResolutionFailed /\ AttributesAre(self)
    ELSE ResolutionFailed /\ error[3] \in AbsentFromBoth /\ NoCallYet

\* C12 amended: resolution fails exactly when the entry deciding some field is
\* missing or null - the field is absent from both sections, or the repo's own
\* entry is null (the common one is then not consulted), or the repo has no
\* entry and the common one is null; the error names the first such field in
\* the order name, fork_url, secrets, variables, permissions, org; otherwise
\* every attribute is the repo's own entry when present, else the common one;
\* a failed resolution comes before any remote call of that repository.
C12_FailsIffNoValue ==
  Constructing =>
    IF WithoutValue = {}
    THEN ~ResolutionFailed /\ AttributesAre(self)
    ELSE /\ ResolutionFailed
         /\ error[3] \in WithoutValue
         /\ \A i, j \in DOMAIN FieldOrder :
              (FieldOrder[j] = error[3] /\ i < j) => FieldOrder[i] \notin WithoutValue
         /\ NoCallYet

\* the second entry has "org": null while the common section has an org: its
\* construction raised after the first entry was reconciled
C12_Witness ==
  /\ idx = 2
  /\ ResolutionFailed
  /\ error[3] = "org"
  /\ "org" \in DOMAIN CurrentRepo
  /\ "org" \in DOMAIN config.common
  /\ Shape(config.common["org"]) = "str"
  /\ calls # <<>>

\* an entry with its own permissions and the common org was constructed and
\* the lookup was issued
C12_WitnessOwnValue ==
  /\ idx = 1
  /\ pc \in {"update", "create"}
  /\ "permissions" \in DOMAIN CurrentRepo
  /\ "permissions" \in DOMAIN config.common
  /\ self.permissions = ("teamB" :> "admin")
  /\ "org" \notin DOMAIN CurrentRepo
  /\ self.org = "acme"

(* -------------------------------- C14 ----------------------------------- *)
Lookups == {i \in DOMAIN calls : calls[i].op = "exists"}
\* the lookup succeeded / answered a clean "not found" / anything else
LookupFound(i) == calls[i].ok
LookupNotFound(i) == ~calls[i].ok /\ calls[i].key \in {NotFoundText, BareNotFoundText}
\* the method create_or_update went on with after lookup i, by its first call
\* or, when that was not issued yet, by the position of the program
Dispatched(i, first, method) ==
  IF i < Len(calls)
  THEN calls[i + 1].repo = calls[i].repo /\ calls[i + 1].op = first
  ELSE pc = method

\* C14: a successful lookup is followed by update() (its sync), a clean
\* not-found by create() (its fork), and any other outcome raises with the
\* lookup as the only call issued for that repository; sync and fork are
\* issued only right after such a lookup.
C14_Dispatch ==
  /\ \A i \in Lookups :
       /\ \A j \in 1..(i - 1) : calls[j].repo # calls[i].repo
       /\ IF LookupFound(i) THEN Dispatched(i, "sync", "update")
          ELSE IF LookupNotFound(i) THEN Dispatched(i, "fork", "create")
          ELSE /\ i = Len(calls)
               /\ pc = "raised"
               /\ error[2] = "Unable to determine if repo exists"
  /\ \A j \in DOMAIN calls :
       /\ calls[j].op = "sync" => (j - 1 \in Lookups /\ LookupFound(j - 1))
       /\ calls[j].op = "fork" => (j - 1 \in Lookups /\ LookupNotFound(j - 1))
  /\ pc = "create_or_update" => NoCallYet

\* the first repository existed and was updated, the second did not and is
\* being created
C14_Witness ==
  /\ idx = 2
  /\ \E i, j \in Lookups :
       /\ i < j
       /\ LookupFound(i) /\ calls[i + 1].op = "sync"
       /\ LookupNotFound(j) /\ j < Len(calls) /\ calls[j + 1].op = "fork"

\* the lookup failed with a server error: exists() raised
C14_WitnessRaised ==
  /\ pc = "raised"
  /\ calls # <<>>
  /\ calls[Len(calls)].op = "exists"
  /\ calls[Len(calls)].key = ServerErrorText

(* -------------------------------- C20 ----------------------------------- *)
\* the repository of the host a call addressed, as it is now
HostState(name) == IF name \in DOMAIN others THEN others[name] ELSE remote
\* the effect of a successful call is on the host
Kept(c) ==
  CASE c.op = "set" ->
         \A k \in DOMAIN c.values :
           k \in DOMAIN HostState(c.repo)[c.kind] /\ HostState(c.repo)[c.kind][k] = c.values[k]
    [] c.op = "lock" -> HostState(c.repo).locked
    [] c.op = "fork" -> HostState(c.repo).exists
    [] OTHER -> TRUE

\* C20: the calls address the repositories in configuration order, one
\* repository at a time: a call for the next repository is issued only after
\* the previous one was locked, the last step of its reconciliation; once an
\* exception is raised the program is over, so no call is issued for a later
\* repository; every successful call of the run keeps its effect on the host.
C20_OneAtATime ==
  /\ \A i \in DOMAIN calls : RepoIndex(calls[i].repo) <= idx
  /\ \A i, j \in DOMAIN calls : i < j => RepoIndex(calls[i].repo) <= RepoIndex(calls[j].repo)
  /\ \A i \in 1..(Len(calls) - 1) :
       calls[i + 1].repo # calls[i].repo =>
         /\ calls[i].op = "lock" /\ calls[i].ok
         /\ RepoIndex(calls[i + 1].repo) = RepoIndex(calls[i].repo) + 1
  /\ \A k \in 1..(idx - 1) :
       \E i \in DOMAIN calls :
         RepoIndex(calls[i].repo) = k /\ calls[i].op = "lock" /\ calls[i].ok
  /\ error # <<>> => pc = "raised"
  /\ pc = "exit" => (idx = Len(config.repos) /\ error = <<>>)
  /\ \A i \in DOMAIN calls : calls[i].ok => Kept(calls[i])

\* the second repository raised during its reconciliation after the first one
\* was created and locked: the first keeps its state, the third is never reached
C20_Witness ==
  /\ Len(config.repos) >= 2
  /\ idx = 2
  /\ pc = "raised"
  /\ ~ResolutionFailed
  /\ others["repo1"].locked
  /\ others["repo1"].permission # EmptyMap
  /\ \E i \in DOMAIN calls : calls[i].repo = "repo1" /\ calls[i].op = "fork"

\* the run ended normally after two repositories
C20_WitnessExit ==
  /\ pc = "exit"
  /\ idx = 2
  /\ \A n \in {"repo1", "repo2"} : others[n].locked

====
